---- MODULE Spec2Model ----
(***************************************************************************)
(* Model of calculus_core.MathCalculator (src/calculus_core.py): five      *)
(* static operations that parse text with SymPy, run one engine transform  *)
(* and return a result string or an error string; and of the window that   *)
(* calls them, CalculatorGUI (src/python_calculator_gui.py).               *)
(*                                                                         *)
(* SymPy is external: every answer it gives (sympify, subs, evalf, diff,   *)
(* integrate, simplify, series, removeO, str) is an input of the model,    *)
(* chosen with \E among "returns a value" and "raises".  The faults are    *)
(* the ones Python's `except Exception` sees: SympifyError and any other   *)
(* Exception, each carrying a message.                                     *)
(*                                                                         *)
(* The Russian message literals of the source are transliterated to ASCII, *)
(* letter for letter, so that equal/unequal messages stay equal/unequal.   *)
(***************************************************************************)
EXTENDS Integers, Sequences, FiniteSets, TLC

VARIABLES
    call,           \* the arguments of the most recent call: [op |-> ..., ...]
    trace,          \* the engine calls that call made, in order, with their outcomes
    result,         \* what the call returned
    op_var,         \* CalculatorGUI: the operation chosen in the combobox
    param_entries,  \* CalculatorGUI: the texts of the parameter fields
    result_text,    \* CalculatorGUI: the result field
    desc_text       \* CalculatorGUI: the description field

service == <<call, trace, result>>
gui == <<op_var, param_entries, result_text, desc_text>>
vars == <<call, trace, result, op_var, param_entries, result_text, desc_text>>

----------------------------------------------------------------------------
(* Python values *)

\* None where a str is expected (error slot, lower, upper)
None == "None"

\* None where a SymPy object is expected (var/expr slot, value slot of calculate)
NoneExpr == [repr |-> "None", is_number |-> FALSE]

\* SymPy objects: their printed form, and whether they are a number (Float)
\* (the ones the engine's transforms answer with)
Values ==
    { [repr |-> "x + 1.0", is_number |-> FALSE],
      [repr |-> "4.00000000000000", is_number |-> TRUE] }

\* str(e) of the exceptions the engine raises; an exception may have no text
Messages == {"", "sin takes exactly 1 argument (0 given)"}

\* int and non-int objects passed as the order n of series_expansion
PyInt(i) == [type |-> "int", int |-> i, str |-> ""]
PyStr(s) == [type |-> "str", int |-> 0, str |-> s]

\* Python truthiness of a str-or-None (`if error:`, `if err_a or err_b:`)
Truthy(s) == s # None /\ s # ""

----------------------------------------------------------------------------
(* Bounds of the model *)

\* the orders tried range over -OrderSpan .. OrderSpan
OrderSpan == 1

----------------------------------------------------------------------------
(* The engine's answers *)

Ok(v) == [kind |-> "ok", val |-> v, msg |-> ""]
Raise(k, m) == [kind |-> k, val |-> NoneExpr, msg |-> m]

Faults == { Raise("Exception", m) : m \in Messages }

\* What SymPy's parser does with the texts the callers pass: a well-formed
\* text parses to its expression (printed in SymPy's own spacing), a malformed
\* one (the empty text included) raises SympifyError, and a well-formed text
\* that misuses a function raises that function's own exception.
WellFormed == {"x", "x+1", "0", "1"}
Misused == {"sin()"}
Parsed(value) ==
    CASE value = "x"   -> [repr |-> "x", is_number |-> FALSE]
      [] value = "x+1" -> [repr |-> "x + 1", is_number |-> FALSE]
      [] value = "0"   -> [repr |-> "0", is_number |-> TRUE]
      [] value = "1"   -> [repr |-> "1", is_number |-> TRUE]

\* sympy.sympify(value)
sympify(value) ==
    IF value \in WellFormed THEN { Ok(Parsed(value)) }
    ELSE IF value \in Misused
    THEN { Raise("Exception", "sin takes exactly 1 argument (0 given)") }
    ELSE { Raise("SympifyError", "could not parse") }

\* diff, integrate, simplify, series(...).removeO(), subs, evalf
engine == { Ok(v) : v \in Values } \cup Faults

\* str(obj) of a SymPy object
str(obj) == { [kind |-> "ok", val |-> obj, msg |-> obj.repr] } \cup Faults

\* one entry of trace: the function called, on which argument, and its outcome
Step(fn, arg, o) == [fn |-> fn, arg |-> arg, kind |-> o.kind, msg |-> o.msg, ret |-> o.val]

----------------------------------------------------------------------------
(* Messages of MathCalculator *)

SYNTAX_ERROR == "Oshibka: nekorrektnyj sintaksis vyrazheniya"
generic_error(m) == "Oshibka: " \o m
derivative_error(m) == "Oshibka: nevozmozhno vychislit' proizvodnuyu (" \o m \o ")"
\* as subs_error, with the message of the parser's handler
subs_error_as_parse_error(m) == "Oshibka: " \o m
subs_error(m) == "Oshibka v podstanovke peremennyh: " \o m
evalf_error(m) == "Oshibka pri vychislenii: " \o m
BOUNDS_PAIRING_ERROR == "Oshibka: dolzhny byt' zadany oba predela integrirovaniya ili ni odin."
INVALID_BOUNDS_ERROR == "Oshibka: nekorrektnye predely integrirovaniya"
definite_error(m) == "Oshibka pri vychislenii opredelennogo integrala: " \o m
indefinite_error(m) == "Oshibka pri vychislenii neopredelennogo integrala: " \o m
simplify_error(m) == "Oshibka pri uproshchenii: " \o m
series_error(m) == "Oshibka pri razlozhenii v ryad: " \o m

----------------------------------------------------------------------------
(* MathCalculator._safe_sympify: <<object, error>> from sympify's outcome *)

\* as _safe_sympify, without the `except SympifyError` clause
_safe_sympify_one_handler(o) ==
    IF o.kind = "ok" THEN <<o.val, None>>
    ELSE <<NoneExpr, generic_error(o.msg)>>

\* as _safe_sympify, the last handler returning `None, None`
_safe_sympify_swallowing(o) ==
    IF o.kind = "ok" THEN <<o.val, None>>
    ELSE IF o.kind = "SympifyError" THEN <<NoneExpr, SYNTAX_ERROR>>
    ELSE <<NoneExpr, None>>

_safe_sympify(o) ==
    IF o.kind = "ok" THEN <<o.val, None>>
    ELSE IF o.kind = "SympifyError" THEN <<NoneExpr, SYNTAX_ERROR>>
    ELSE <<NoneExpr, generic_error(o.msg)>>

\* the call returns res, having made the engine calls tr
Return(c, tr, res) ==
    /\ call' = c
    /\ trace' = tr
    /\ result' = res

----------------------------------------------------------------------------
(* MathCalculator.derivative *)

derivative(expression, variable) ==
    LET c == [op |-> "derivative", expression |-> expression, variable |-> variable] IN
    \E o1 \in sympify(variable) :
      LET r1 == _safe_sympify(o1)
          var == r1[1]
          t1 == <<Step("sympify", "variable", o1)>>
      IN
      IF Truthy(r1[2]) THEN Return(c, t1, r1[2])
      ELSE
      \E o2 \in sympify(expression) :
        LET r2 == _safe_sympify(o2)
            expr == r2[1]
            t2 == Append(t1, Step("sympify", "expression", o2))
        IN
        IF Truthy(r2[2]) THEN Return(c, t2, r2[2])
        ELSE
        \E o3 \in engine :
          LET t3 == Append(t2, Step("diff", "expr,var", o3)) IN
          IF o3.kind # "ok" THEN Return(c, t3, derivative_error(o3.msg))
          ELSE
          \E o4 \in str(o3.val) :
            LET t4 == Append(t3, Step("str", "derivative_expr", o4)) IN
            IF o4.kind # "ok" THEN Return(c, t4, derivative_error(o4.msg))
            ELSE Return(c, t4, o4.msg)

----------------------------------------------------------------------------
(* MathCalculator.calculate *)

\* `if substitutions:` : a dict is true when it is not None and not empty
DictTruthy(substitutions) == ~substitutions.is_none /\ substitutions.items # {}

calculate(expression, substitutions) ==
    LET c == [op |-> "calculate", expression |-> expression,
              substitutions |-> substitutions] IN
    \E o1 \in sympify(expression) :
      LET r1 == _safe_sympify(o1)
          t1 == <<Step("sympify", "expression", o1)>>
      IN
      IF Truthy(r1[2]) THEN Return(c, t1, <<r1[2], NoneExpr>>)
      ELSE
      \E o2 \in (IF DictTruthy(substitutions) THEN engine ELSE {Ok(r1[1])}) :
        LET t2 == IF DictTruthy(substitutions)
                  THEN Append(t1, Step("subs", "substitutions", o2))
                  ELSE t1
            expr == o2.val
        IN
        IF o2.kind # "ok" THEN Return(c, t2, <<subs_error(o2.msg), NoneExpr>>)
        ELSE
        \E o3 \in engine :
          LET t3 == Append(t2, Step("evalf", "expr", o3)) IN
          IF o3.kind # "ok" THEN Return(c, t3, <<evalf_error(o3.msg), NoneExpr>>)
          ELSE
          \E o4 \in str(expr) :
            LET t4 == Append(t3, Step("str", "expr", o4)) IN
            IF o4.kind # "ok" THEN Return(c, t4, <<evalf_error(o4.msg), NoneExpr>>)
            ELSE Return(c, t4, <<o4.msg, o3.val>>)

----------------------------------------------------------------------------
(* MathCalculator.integrate *)

\* as bounds_unpaired, testing only for a missing upper bound
bounds_unpaired_upper_only(lower, upper) == lower # None /\ upper = None

\* line 87: exactly one of the bounds is None
bounds_unpaired(lower, upper) ==
    (lower # None /\ upper = None) \/ (lower = None /\ upper # None)

\* line 90
both_bounds(lower, upper) == lower # None /\ upper # None

\* as bounds_invalid, with `and` for `or`
bounds_invalid_and(err_a, err_b) == Truthy(err_a) /\ Truthy(err_b)

\* line 93: `if err_a or err_b:`
bounds_invalid(err_a, err_b) == Truthy(err_a) \/ Truthy(err_b)

\* lines 95-99 (definite) and 101-105 (indefinite): the engine call, then str,
\* under one try
integrate_engine(c, t, definite) ==
    LET arg == IF definite THEN "expr,(var,a,b)" ELSE "expr,var"
        error(m) == IF definite THEN definite_error(m) ELSE indefinite_error(m)
    IN
    \E o \in engine :
      LET t1 == Append(t, Step("integrate", arg, o)) IN
      IF o.kind # "ok" THEN Return(c, t1, error(o.msg))
      ELSE
      \E o2 \in str(o.val) :
        LET t2 == Append(t1, Step("str", "integral", o2)) IN
        IF o2.kind # "ok" THEN Return(c, t2, error(o2.msg))
        ELSE Return(c, t2, o2.msg)

integrate(expression, variable, lower, upper) ==
    LET c == [op |-> "integrate", expression |-> expression, variable |-> variable,
              lower |-> lower, upper |-> upper] IN
    \E o1 \in sympify(variable) :
      LET r1 == _safe_sympify(o1)
          t1 == <<Step("sympify", "variable", o1)>>
      IN
      IF Truthy(r1[2]) THEN Return(c, t1, r1[2])
      ELSE
      \E o2 \in sympify(expression) :
        LET r2 == _safe_sympify(o2)
            t2 == Append(t1, Step("sympify", "expression", o2))
        IN
        IF Truthy(r2[2]) THEN Return(c, t2, r2[2])
        ELSE IF bounds_unpaired(lower, upper) THEN Return(c, t2, BOUNDS_PAIRING_ERROR)
        ELSE IF both_bounds(lower, upper)
        THEN
          \E oa \in sympify(lower), ob \in sympify(upper) :
            LET ra == _safe_sympify(oa)
                rb == _safe_sympify(ob)
                t4 == t2 \o <<Step("sympify", "lower", oa), Step("sympify", "upper", ob)>>
            IN
            IF bounds_invalid(ra[2], rb[2]) THEN Return(c, t4, INVALID_BOUNDS_ERROR)
            ELSE integrate_engine(c, t4, TRUE)
        ELSE integrate_engine(c, t2, FALSE)

----------------------------------------------------------------------------
(* MathCalculator.simplify_expression *)

simplify_expression(expression) ==
    LET c == [op |-> "simplify_expression", expression |-> expression] IN
    \E o1 \in sympify(expression) :
      LET r1 == _safe_sympify(o1)
          t1 == <<Step("sympify", "expression", o1)>>
      IN
      IF Truthy(r1[2]) THEN Return(c, t1, r1[2])
      ELSE
      \E o2 \in engine :
        LET t2 == Append(t1, Step("simplify", "expr", o2)) IN
        IF o2.kind # "ok" THEN Return(c, t2, simplify_error(o2.msg))
        ELSE
        \E o3 \in str(o2.val) :
          LET t3 == Append(t2, Step("str", "simplified", o3)) IN
          IF o3.kind # "ok" THEN Return(c, t3, simplify_error(o3.msg))
          ELSE Return(c, t3, o3.msg)

----------------------------------------------------------------------------
(* MathCalculator.series_expansion *)

series_expansion(expression, variable, n, x0) ==
    LET c == [op |-> "series_expansion", expression |-> expression,
              variable |-> variable, n |-> n, x0 |-> x0] IN
    \E o1 \in sympify(variable) :
      LET r1 == _safe_sympify(o1)
          t1 == <<Step("sympify", "variable", o1)>>
      IN
      IF Truthy(r1[2]) THEN Return(c, t1, r1[2])
      ELSE
      \E o2 \in sympify(expression) :
        LET r2 == _safe_sympify(o2)
            t2 == Append(t1, Step("sympify", "expression", o2))
        IN
        IF Truthy(r2[2]) THEN Return(c, t2, r2[2])
        ELSE
        \E o3 \in engine :
          LET t3 == Append(t2, Step("series", "expr,var,x0,n", o3)) IN
          IF o3.kind # "ok" THEN Return(c, t3, series_error(o3.msg))
          ELSE
          \E o4 \in engine :
            LET t4 == Append(t3, Step("removeO", "series", o4)) IN
            IF o4.kind # "ok" THEN Return(c, t4, series_error(o4.msg))
            ELSE
            \E o5 \in str(o4.val) :
              LET t5 == Append(t4, Step("str", "ser", o5)) IN
              IF o5.kind # "ok" THEN Return(c, t5, series_error(o5.msg))
              ELSE Return(c, t5, o5.msg)

----------------------------------------------------------------------------
(* Arguments the callers pass *)

ExpressionTexts == {"x+1", "invalid expr", "sin()"}
VariableTexts == {"x", "x y", "sin()"}
LowerTexts == {None, "", "0", "sin()"}
UpperTexts == {None, "", "1", "invalid expr"}

NoneDict == [is_none |-> TRUE, items |-> {}]
Dict(items) == [is_none |-> FALSE, items |-> items]
SubstitutionMaps == {NoneDict, Dict({}), Dict({<<"x", 3>>})}

\* defaults of series_expansion(expression, variable, n=5, x0=0)
DefaultOrder == 5
DefaultX0 == 0
Orders ==
    { PyInt(i) : i \in (0 - OrderSpan)..OrderSpan }
    \cup {PyInt(DefaultOrder), PyStr("abc")}
ExpansionPoints == {DefaultX0, 1}

----------------------------------------------------------------------------
(* CalculatorGUI (src/python_calculator_gui.py) *)

DERIVATIVE == "Proizvodnaya"
INTEGRAL == "Integral"
EVALUATE == "Vychislit' vyrazhenie"
SIMPLIFY == "Uprostit'"
SERIES == "Ryad Tejlora"

\* self.operations: the parameter fields of each operation
operations ==
    [o \in {DERIVATIVE, INTEGRAL, EVALUATE, SIMPLIFY, SERIES} |->
        CASE o = DERIVATIVE -> [func |-> "derivative",
                                params |-> <<"Vyrazhenie", "Peremennaya">>]
          [] o = INTEGRAL -> [func |-> "integrate",
                              params |-> <<"Vyrazhenie", "Peremennaya",
                                           "Nizhnij predel (opcional'no)",
                                           "Verhnij predel (opcional'no)">>]
          [] o = EVALUATE -> [func |-> "calculate",
                              params |-> <<"Vyrazhenie",
                                           "Podstanovki (primer: x=2,y=3)">>]
          [] o = SIMPLIFY -> [func |-> "simplify_expression",
                              params |-> <<"Vyrazhenie">>]
          [] o = SERIES -> [func |-> "series_expansion",
                            params |-> <<"Vyrazhenie", "Peremennaya",
                                         "Poryadok (chislo)",
                                         "Tochka razlozheniya (chislo, opcional'no)">>]]

\* set_description: the text shown for an operation
descriptions ==
    [o \in DOMAIN operations |->
        CASE o = DERIVATIVE ->
               "Vychislyaet proizvodnuyu zadannogo vyrazheniya po peremennoj.\nPrimer: Vyrazhenie: x**2 + 3*x, Peremennaya: x"
          [] o = INTEGRAL ->
               "Vychislyaet neopredelennyj ili opredelennyj integral.\nPredely integrirovaniya zadayutsya opcional'no."
          [] o = EVALUATE ->
               "Vychislyaet chislovoe znachenie vyrazheniya. Podstanovki peremennyh ukazyvajte cherez zapyatuyu, naprimer: x=2,y=3"
          [] o = SIMPLIFY ->
               "Uproshchaet dannoe matematicheskoe vyrazhenie."
          [] o = SERIES ->
               "Razlagaet vyrazhenie v ryad Tejlora okolo tochki s ukazannym poryadkom.\nPrimer: poryadok 5, tochka razlozheniya 0."]

\* update_params, after the combobox set op_var to op: fresh empty fields, one
\* per parameter, and the operation's description
update_params(op) ==
    /\ op_var' = op
    /\ param_entries' = [i \in 1..Len(operations[op].params) |-> ""]
    /\ desc_text' = descriptions[op]
    /\ UNCHANGED <<result_text, call, trace, result>>

\* What the user can type into the field of a parameter
FieldTexts(label) ==
    CASE label = "Vyrazhenie" -> {"", "x+1", "invalid expr"}
      [] label = "Peremennaya" -> {"", "x", " x "}
      [] label = "Nizhnij predel (opcional'no)" -> {"", "0"}
      [] label = "Verhnij predel (opcional'no)" -> {"", "1"}
      [] label = "Podstanovki (primer: x=2,y=3)" -> {"", "x=3", "x"}
      [] label = "Poryadok (chislo)" ->
           {"", "abc"} \cup { ToString(i) : i \in (0 - OrderSpan)..OrderSpan }
      [] label = "Tochka razlozheniya (chislo, opcional'no)" -> {"", "1", "abc"}

\* the user edits field i (tk.Entry)
Entry(i, text) ==
    /\ i \in DOMAIN param_entries
    /\ text \in FieldTexts(operations[op_var].params[i])
    /\ param_entries' = [param_entries EXCEPT ![i] = text]
    /\ UNCHANGED <<op_var, result_text, desc_text, call, trace, result>>

\* str.strip() on the texts of the fields
strip(text) == IF text = " x " THEN "x" ELSE text

\* int(text): the integer a decimal literal denotes, or ValueError
IntLiterals == (0 - OrderSpan - 1)..(OrderSpan + 1)
int(text) ==
    IF \E i \in IntLiterals : ToString(i) = text
    THEN Ok(PyInt(CHOOSE i \in IntLiterals : ToString(i) = text))
    ELSE Raise("ValueError", "invalid literal for int() with base 10: '" \o text \o "'")

\* float(text), likewise
float(text) ==
    IF \E i \in IntLiterals : ToString(i) = text
    THEN Ok(CHOOSE i \in IntLiterals : ToString(i) = text)
    ELSE Raise("ValueError", "could not convert string to float: '" \o text \o "'")

\* lines 122-128: "x=2,y=3" to a dict, or ValueError when a pair does not
\* split at one "=" into a name and a float
parse_substitutions(text) ==
    IF text = "x=3" THEN Ok(Dict({<<"x", 3>>}))
    ELSE Raise("ValueError", "Nevernyj format podstanovok (primer: x=2,y=3)")

\* lines 149-153: nothing was called; the handler shows the exception's text
Failure(m) ==
    /\ call' = [op |-> "none"]
    /\ trace' = <<>>
    /\ result' = None
    /\ result_text' = "Oshibka: " \o m

\* lines 131-133 and 152-153: what the result field shows for a returned value
Shown(op, res) ==
    IF op = EVALUATE
    THEN "Vyrazhenie: " \o res[1] \o "\nZnachenie: " \o res[2].repr
    ELSE res

\* CalculatorGUI.calculate: the handler of the button
GUI_calculate ==
    LET op == op_var
        params == [i \in DOMAIN param_entries |-> strip(param_entries[i])]
        len == Len(params)
    IN
    /\ UNCHANGED <<op_var, param_entries, desc_text>>
    /\ IF op = DERIVATIVE THEN
         IF len < 2 \/ params[1] = "" \/ params[2] = ""
         THEN Failure("Vvedite vyrazhenie i peremennuyu.")
         ELSE derivative(params[1], params[2]) /\ result_text' = Shown(op, result')
       ELSE IF op = INTEGRAL THEN
         IF len < 2 \/ params[1] = "" \/ params[2] = ""
         THEN Failure("Vvedite vyrazhenie i peremennuyu.")
         ELSE
           LET lower == IF len > 2 /\ params[3] # "" THEN params[3] ELSE None
               upper == IF len > 3 /\ params[4] # "" THEN params[4] ELSE None
           IN integrate(params[1], params[2], lower, upper)
              /\ result_text' = Shown(op, result')
       ELSE IF op = EVALUATE THEN
         LET parsed == IF len > 1 /\ params[2] # ""
                       THEN parse_substitutions(params[2])
                       ELSE Ok(Dict({}))
         IN
         IF parsed.kind # "ok" THEN Failure(parsed.msg)
         ELSE calculate(params[1], parsed.val) /\ result_text' = Shown(op, result')
       ELSE IF op = SIMPLIFY THEN
         IF params[1] = ""
         THEN Failure("Vvedite vyrazhenie.")
         ELSE simplify_expression(params[1]) /\ result_text' = Shown(op, result')
       ELSE IF op = SERIES THEN
         IF len < 3 \/ params[1] = "" \/ params[2] = "" \/ params[3] = ""
         THEN Failure("Vvedite vyrazhenie, peremennuyu i poryadok.")
         ELSE
           LET n == int(params[3])
               x0 == IF len > 3 /\ params[4] # "" THEN float(params[4]) ELSE Ok(0)
           IN
           IF n.kind # "ok" THEN Failure(n.msg)
           ELSE IF x0.kind # "ok" THEN Failure(x0.msg)
           ELSE series_expansion(params[1], params[2], n.val, x0.val)
                /\ result_text' = Shown(op, result')
       ELSE
         /\ UNCHANGED <<call, trace, result>>
         /\ result_text' = "Neizvestnaya operaciya."

----------------------------------------------------------------------------
(* The calculator after construction, and its two uses: the operations called
   directly (Spec), and the window (GUISpec) *)

Init ==
    /\ call = [op |-> "none"]
    /\ trace = <<>>
    /\ result = None
    /\ op_var = DERIVATIVE
    /\ param_entries = [i \in 1..Len(operations[DERIVATIVE].params) |-> ""]
    /\ result_text = ""
    /\ desc_text = descriptions[DERIVATIVE]

CallDerivative ==
    \E expression \in ExpressionTexts, variable \in VariableTexts :
        derivative(expression, variable) /\ UNCHANGED gui

CallCalculate ==
    \E expression \in ExpressionTexts, substitutions \in SubstitutionMaps :
        calculate(expression, substitutions) /\ UNCHANGED gui

CallIntegrate ==
    \E expression \in ExpressionTexts, variable \in VariableTexts,
       lower \in LowerTexts, upper \in UpperTexts :
        integrate(expression, variable, lower, upper) /\ UNCHANGED gui

CallSimplifyExpression ==
    \E expression \in ExpressionTexts :
        simplify_expression(expression) /\ UNCHANGED gui

CallSeriesExpansion ==
    \E expression \in ExpressionTexts, variable \in VariableTexts,
       n \in Orders, x0 \in ExpansionPoints :
        series_expansion(expression, variable, n, x0) /\ UNCHANGED gui

Next ==
    \/ CallDerivative
    \/ CallCalculate
    \/ CallIntegrate
    \/ CallSimplifyExpression
    \/ CallSeriesExpansion

Spec == Init /\ [][Next]_vars

SelectOperation == \E op \in DOMAIN operations : update_params(op)

EditField ==
    \E i \in DOMAIN param_entries :
        \E text \in FieldTexts(operations[op_var].params[i]) : Entry(i, text)

GUINext ==
    \/ SelectOperation
    \/ EditField
    \/ GUI_calculate

GUISpec == Init /\ [][GUINext]_vars

----------------------------------------------------------------------------
(* What a state says about the call it records *)

Steps == 1..Len(trace)
Made(fn) == \E i \in Steps : trace[i].fn = fn
IsParse(i, arg) == trace[i].fn = "sympify" /\ trace[i].arg = arg
ParseTried(arg) == \E i \in Steps : IsParse(i, arg)
ParsedOk(arg) == \E i \in Steps : IsParse(i, arg) /\ trace[i].kind = "ok"
ParseFailed(arg) == \E i \in Steps : IsParse(i, arg) /\ trace[i].kind # "ok"

\* the engine's transforms, as opposed to its parser and its printer
Transforms == {"diff", "integrate", "simplify", "series", "removeO"}
MadeTransform == \E i \in Steps : trace[i].fn \in Transforms

\* every message the engine's exceptions carry in this model
EngineMessages == Messages \cup {"could not parse"}

ParseErrors == {SYNTAX_ERROR} \cup { generic_error(m) : m \in EngineMessages }
EvalfErrors == { evalf_error(m) : m \in EngineMessages }
ErrorStrings ==
    ParseErrors \cup EvalfErrors
    \cup {BOUNDS_PAIRING_ERROR, INVALID_BOUNDS_ERROR}
    \cup { derivative_error(m) : m \in EngineMessages }
    \cup { subs_error(m) : m \in EngineMessages }
    \cup { definite_error(m) : m \in EngineMessages }
    \cup { indefinite_error(m) : m \in EngineMessages }
    \cup { simplify_error(m) : m \in EngineMessages }
    \cup { series_error(m) : m \in EngineMessages }

\* the printed forms of the SymPy objects of this model
ResultStrings ==
    { v.repr : v \in Values } \cup { Parsed(t).repr : t \in WellFormed }

\* the error string the source's parser wrapper has for a failed parse step
ParseErrorOf(step) ==
    IF step.kind = "SympifyError" THEN SYNTAX_ERROR
    ELSE "Oshibka: " \o step.msg

IsPositiveInt(n) == n.type = "int" /\ n.int > 0

----------------------------------------------------------------------------
(* C1, as the specification states it *)

\* C1: every call of the five operations ends by returning a value: a result
\* string or an error string, and for calculate a pair whose second slot is a
\* number or None.
C1_EveryCallReturnsAValue ==
    call.op # "none" =>
        IF call.op = "calculate"
        THEN /\ result[1] \in ResultStrings \cup ErrorStrings
             /\ (result[2] = NoneExpr \/ result[2].is_number)
        ELSE result \in ResultStrings \cup ErrorStrings

----------------------------------------------------------------------------
(* C2 *)

\* C2: in integrate, when variable and expression parse and exactly one of
\* lower/upper is None, the call returns the 'both bounds or neither' error,
\* parses neither bound and makes no integration call.
C2_UnpairedBoundsRejected ==
    ( /\ call.op = "integrate"
      /\ ParsedOk("variable") /\ ParsedOk("expression")
      /\ (call.lower = None) # (call.upper = None) )
    => /\ result = BOUNDS_PAIRING_ERROR
       /\ ~ParseTried("lower") /\ ~ParseTried("upper")
       /\ ~Made("integrate")

C2_Witness ==
    /\ call.op = "integrate"
    /\ call.lower = None /\ call.upper = "1"
    /\ ParsedOk("variable") /\ ParsedOk("expression")
    /\ result = BOUNDS_PAIRING_ERROR

----------------------------------------------------------------------------
(* C3, as the specification states it *)

\* C3: in calculate, whenever evaluation does not produce a number the call
\* returns an evaluation-stage error with None in the value slot; a value slot
\* that is not None is always a number.
C3_NonNumericEvaluationIsAnError ==
    call.op = "calculate" =>
        /\ \A i \in Steps :
             (trace[i].fn = "evalf" /\ ~(trace[i].kind = "ok" /\ trace[i].ret.is_number))
             => (result[1] \in EvalfErrors /\ result[2] = NoneExpr)
        /\ (result[2] # NoneExpr => result[2].is_number)

----------------------------------------------------------------------------
(* C4, as the specification states it *)

\* C4: every call of series_expansion whose order n is not a positive integer
\* returns a validation error, and the engine's series is not invoked on it.
C4_BadOrderRejectedBeforeExpansion ==
    (call.op = "series_expansion" /\ ~IsPositiveInt(call.n))
    => (result \in ErrorStrings /\ ~Made("series"))

----------------------------------------------------------------------------
(* C5 *)

\* C5: derivative, integrate and series_expansion parse the variable first; a
\* variable that fails to parse ends the call with its error and the expression
\* is never parsed; an expression that fails to parse ends the call with its
\* error; in both cases nothing else (transform, bound check, bound parse) runs.
C5_VariableThenExpressionFailFast ==
    call.op \in {"derivative", "integrate", "series_expansion"} =>
        /\ Len(trace) >= 1 /\ IsParse(1, "variable")
        /\ trace[1].kind # "ok" =>
             (Len(trace) = 1 /\ result = ParseErrorOf(trace[1]))
        /\ trace[1].kind = "ok" =>
             /\ Len(trace) >= 2 /\ IsParse(2, "expression")
             /\ trace[2].kind # "ok" =>
                  (Len(trace) = 2 /\ result = ParseErrorOf(trace[2]))

C5_Witness ==
    /\ call.op = "series_expansion"
    /\ call.variable = "sin()" /\ call.expression = "invalid expr"
    /\ Len(trace) = 1 /\ trace[1].kind = "Exception"
    /\ result = "Oshibka: sin takes exactly 1 argument (0 given)"

----------------------------------------------------------------------------
(* C6 *)

IsDefinite(i) == trace[i].fn = "integrate" /\ trace[i].arg = "expr,(var,a,b)"
IsIndefinite(i) == trace[i].fn = "integrate" /\ trace[i].arg = "expr,var"

\* C6: in integrate, when variable and expression parse and both bounds are
\* given, both bounds are parsed; if one of them fails the call returns the one
\* 'invalid bounds' error and integrates nothing; the definite integration is
\* called only when both bounds parsed, the indefinite one only when both
\* bounds are None.
C6_BoundsParsedBeforeIntegration ==
    call.op = "integrate" =>
        /\ ( /\ ParsedOk("variable") /\ ParsedOk("expression")
             /\ call.lower # None /\ call.upper # None )
           => /\ ParseTried("lower") /\ ParseTried("upper")
              /\ (ParseFailed("lower") \/ ParseFailed("upper"))
                 => (result = INVALID_BOUNDS_ERROR /\ ~Made("integrate"))
        /\ \A i \in Steps :
             /\ IsDefinite(i) =>
                  /\ call.lower # None /\ call.upper # None
                  /\ ParsedOk("lower") /\ ParsedOk("upper")
             /\ IsIndefinite(i) => (call.lower = None /\ call.upper = None)

C6_Witness ==
    /\ call.op = "integrate"
    /\ call.lower = "sin()" /\ call.upper = "1"
    /\ ParseFailed("lower") /\ ParsedOk("upper")
    /\ result = INVALID_BOUNDS_ERROR

----------------------------------------------------------------------------
(* C7 *)

\* a text the parser rejects with its syntax fault
Malformed(text) == text \notin WellFormed \cup Misused

\* what an operation returns for the error string e
ErrorResult(e) == IF call.op = "calculate" THEN <<e, NoneExpr>> ELSE e

\* C7: in every operation, when the parser raises its syntax fault on the main
\* expression the operation returns the syntax-error message (calculate: paired
\* with None) and makes no substitution, evaluation or transform; another
\* parser fault is returned as "Oshibka: " and the engine's message, which is
\* not the syntax-error message.  (In the operations that take a variable the
\* expression is parsed only once the variable has parsed.)
C7_MalformedExpressionIsParseError ==
    /\ ( /\ call.op # "none"
         /\ Malformed(call.expression)
         /\ call.op \in {"derivative", "integrate", "series_expansion"}
            => call.variable \in WellFormed )
       => result = ErrorResult(SYNTAX_ERROR)
    /\ \A i \in Steps :
        IsParse(i, "expression") =>
            /\ trace[i].kind = "SympifyError" =>
                 /\ result = ErrorResult(SYNTAX_ERROR)
                 /\ ~MadeTransform /\ ~Made("subs") /\ ~Made("evalf")
            /\ trace[i].kind = "Exception" =>
                 /\ result = ErrorResult("Oshibka: " \o trace[i].msg)
                 /\ "Oshibka: " \o trace[i].msg # SYNTAX_ERROR
                 /\ ~MadeTransform /\ ~Made("subs") /\ ~Made("evalf")

C7_Witness ==
    /\ call.op = "calculate"
    /\ call.expression = "invalid expr"
    /\ trace[1].kind = "SympifyError"
    /\ result = <<SYNTAX_ERROR, NoneExpr>>

----------------------------------------------------------------------------
(* C8 *)

\* a substitution map was supplied: not None and not empty
Supplied(substitutions) == ~substitutions.is_none /\ substitutions.items # {}

\* the steps of calculate, in order
CalculateSteps(substitutions) ==
    IF Supplied(substitutions)
    THEN <<"sympify", "subs", "evalf", "str">>
    ELSE <<"sympify", "evalf", "str">>

\* C8: calculate runs parse, substitute (when a map is supplied), evaluate, in
\* that order, and stops at the first failing step: a parse failure returns
\* (parse error, None) with no substitution; a substitution fault returns
\* (substitution-stage error, None), a message that is neither a parse error
\* nor an evaluation error, with no evaluation; success returns (text of the
\* expression after substitution, evaluated value); the value slot is None in
\* every error outcome.
C8_CalculateStagesInOrder ==
    call.op = "calculate" =>
        LET steps == CalculateSteps(call.substitutions)
            last == trace[Len(trace)]
            afterSubs == IF Supplied(call.substitutions) THEN trace[2].ret ELSE trace[1].ret
        IN
        /\ Len(trace) >= 1 /\ Len(trace) <= Len(steps)
        /\ \A i \in Steps : trace[i].fn = steps[i]
        /\ \A i \in Steps : i < Len(trace) => trace[i].kind = "ok"
        /\ last.kind = "ok" => Len(trace) = Len(steps)
        /\ (last.fn = "sympify" /\ last.kind # "ok") =>
             result = <<ParseErrorOf(last), NoneExpr>>
        /\ (last.fn = "subs" /\ last.kind # "ok") =>
             /\ result = <<subs_error(last.msg), NoneExpr>>
             /\ result[1] \notin ParseErrors \cup EvalfErrors
        /\ (last.fn \in {"evalf", "str"} /\ last.kind # "ok") =>
             result = <<"Oshibka pri vychislenii: " \o last.msg, NoneExpr>>
        /\ last.kind = "ok" =>
             result = <<afterSubs.repr, trace[Len(trace) - 1].ret>>
        /\ last.kind # "ok" => result[2] = NoneExpr

C8_Witness ==
    /\ call.op = "calculate"
    /\ Supplied(call.substitutions)
    /\ Len(trace) = 2 /\ trace[2].fn = "subs" /\ trace[2].kind = "Exception"
    /\ result = <<"Oshibka v podstanovke peremennyh: sin takes exactly 1 argument (0 given)", NoneExpr>>

----------------------------------------------------------------------------
(* C10, as the specification states it *)

\* C10: a direct call of integrate with parsable variable and expression and
\* exactly one of lower/upper the empty string (the other a non-empty parsable
\* bound) returns the 'both bounds or neither' error and integrates nothing.
C10_EmptyStringBoundIsAbsent ==
    ( /\ call.op = "integrate"
      /\ ParsedOk("variable") /\ ParsedOk("expression")
      /\ \/ (call.lower = "" /\ call.upper \in WellFormed)
         \/ (call.lower \in WellFormed /\ call.upper = "") )
    => (result = BOUNDS_PAIRING_ERROR /\ ~Made("integrate"))

\* The window's side of C10: pressing the button on Integral with expression
\* and variable filled in and exactly one bound field empty calls integrate
\* with None for the empty field; when variable and expression parse, the
\* result field shows the 'both bounds or neither' error and nothing is
\* integrated.
GUI_EmptyBoundFieldIsAbsent ==
    [][ ( /\ GUI_calculate
          /\ op_var = INTEGRAL
          /\ strip(param_entries[1]) # "" /\ strip(param_entries[2]) # ""
          /\ (strip(param_entries[3]) = "") # (strip(param_entries[4]) = "") )
        => /\ call'.op = "integrate"
           /\ (call'.lower = None) # (call'.upper = None)
           /\ call'.lower # "" /\ call'.upper # ""
           /\ (ParsedOk("variable") /\ ParsedOk("expression"))'
              => (result_text' = BOUNDS_PAIRING_ERROR /\ ~Made("integrate")') ]_vars

====
